---------------------------- MODULE Spec2Model ----------------------------
(***************************************************************************)
(* Folder Note View (src/main.ts): a plugin that opens or creates a        *)
(* "folder note" when a folder row is clicked, hides the folder notes in   *)
(* the file explorer and re-synchronises both after file events and DOM    *)
(* mutations, debounced by a 100 ms timer.                                 *)
(*                                                                         *)
(* Paths and names are sequences of one-character strings, so that the     *)
(* string templates of the source (`${parentPath}/${folderName}.md`) and   *)
(* CSS.escape are computed character by character.                         *)
(***************************************************************************)
EXTENDS Integers, Sequences, FiniteSets, Bags, TLC

(***************************************************************************)
(* Bounds of the model.                                                    *)
(***************************************************************************)
\* plugin instances the host creates (one per enable of the plugin)
MaxLoads == 2
\* open-or-create / create-note operations that may be in flight together
MaxOps == 2

\* triggers counted in one burst (the count stops there)
MaxBurst == 2

\* the quiet period of the debounce timer, in ms (src/main.ts:43)
QuietPeriod == 100
\* the step by which the model's clock advances: half a quiet period
TickMs == QuietPeriod \div 2

(***************************************************************************)
(* Strings.                                                                *)
(***************************************************************************)
Null == <<"null">>
Slash == <<"/">>
MdExt == <<".", "m", "d">>
EmptyStr == <<>>

Digits == {"0", "1", "2", "3", "4", "5", "6", "7", "8", "9"}
Letters == {"m", "d", "a", "b", "c", "e", "f", "A", "B", "C", "D", "E", "F", "P"}
HexLetters == {"a", "b", "c", "d", "e", "f", "A", "B", "C", "D", "E", "F"}

\* The hexadecimal code point of an ASCII digit, as CSS.escape writes it.
HexOfDigit(c) == <<"3", c>>

\* CSS.escape(s), per CSSOM "serialize an identifier", over the characters
\* the model's paths use: a digit at index 0 is written as its code point
\* followed by a space, a letter or a later digit is kept, any other
\* character is preceded by a backslash.
RECURSIVE CssEscapeFrom(_, _)
CssEscapeFrom(s, i) ==
    IF i > Len(s) THEN <<>>
    ELSE LET c == s[i]
             out == IF c \in Digits /\ i = 1 THEN <<"\\">> \o HexOfDigit(c) \o <<" ">>
                    ELSE IF c \in Digits \cup Letters \cup {"-", "_"} THEN <<c>>
                    ELSE <<"\\", c>>
         IN  out \o CssEscapeFrom(s, i + 1)

CssEscape(s) == CssEscapeFrom(s, 1)

\* The host's CSS parser reading the characters of a quoted string: a
\* backslash followed by hex digits (and one optional space) is that code
\* point, a backslash followed by another character is that character.
RECURSIVE CssHexLen(_, _)
CssHexLen(s, i) ==
    IF i <= Len(s) /\ s[i] \in Digits \cup HexLetters THEN 1 + CssHexLen(s, i + 1) ELSE 0

CssCodePoint(h) ==
    IF Len(h) = 2 /\ h[1] = "3" /\ h[2] \in Digits THEN h[2] ELSE "?"

RECURSIVE CssUnescapeFrom(_, _)
CssUnescapeFrom(s, i) ==
    IF i > Len(s) THEN <<>>
    ELSE IF s[i] # "\\" THEN <<s[i]>> \o CssUnescapeFrom(s, i + 1)
    ELSE IF i = Len(s) THEN <<>>
    ELSE LET n == CssHexLen(s, i + 1)
         IN  IF n = 0 THEN <<s[i + 1]>> \o CssUnescapeFrom(s, i + 2)
             ELSE LET h == SubSeq(s, i + 1, i + n)
                      j == i + n + 1
                      k == IF j <= Len(s) /\ s[j] = " " THEN j + 1 ELSE j
                  IN  <<CssCodePoint(h)>> \o CssUnescapeFrom(s, k)

CssUnescape(s) == CssUnescapeFrom(s, 1)

\* `[data-path="${CSS.escape(p)}"]` matches the element whose data-path
\* attribute is the string the CSS parser reads back.
SelectorMatches(escaped, dataPath) == CssUnescape(escaped) = dataPath

(***************************************************************************)
(* The host's file tree.  An abstract file is a record: path, name, the    *)
(* path of its parent folder (Null for the vault root) and its kind.       *)
(***************************************************************************)
NullFile == [path |-> Null, name |-> Null, parent |-> Null, kind |-> "null"]

Root == [path |-> Slash, name |-> EmptyStr, parent |-> Null, kind |-> "folder"]

\* The host's path of a child: children of the root carry no leading slash.
HostChildPath(parentPath, name) ==
    IF parentPath = Slash THEN name ELSE parentPath \o Slash \o name

HostEntry(parentPath, name, kind) ==
    [path |-> HostChildPath(parentPath, name), name |-> name,
     parent |-> parentPath, kind |-> kind]

\* The host splitting a path it is given into folder and base name.
RECURSIVE LastSlash(_, _)
LastSlash(p, i) ==
    IF i = 0 THEN 0 ELSE IF p[i] = "/" THEN i ELSE LastSlash(p, i - 1)

HostDirName(p) ==
    LET k == LastSlash(p, Len(p))
    IN  IF k <= 1 THEN Slash ELSE SubSeq(p, 1, k - 1)

HostBaseName(p) == SubSeq(p, LastSlash(p, Len(p)) + 1, Len(p))

\* The folder name every modelled folder carries (so that a folder and its
\* child share a name, and CSS.escape meets a leading digit).
FolderName == <<"1">>
NoteName == FolderName \o MdExt

Folder1 == HostEntry(Slash, FolderName, "folder")
Folder2 == HostEntry(Folder1.path, FolderName, "folder")

\* Everything the host may hold besides the root: the two nested folders,
\* the notes named after them at each level, and folders occupying the two
\* upper note paths.
Skeleton ==
    {Folder1, Folder2,
     HostEntry(Slash, NoteName, "file"), HostEntry(Slash, NoteName, "folder"),
     HostEntry(Folder1.path, NoteName, "file"), HostEntry(Folder1.path, NoteName, "folder"),
     HostEntry(Folder2.path, NoteName, "file")}

\* A second top-level folder with another name, and a folder inside it
\* that bears the name of the first: folders that share a name without
\* being parent and child.
OtherName == <<"2">>
FolderB == HostEntry(Slash, OtherName, "folder")
FolderB1 == HostEntry(FolderB.path, FolderName, "folder")

\* The notes at the candidate locations of the four folders.
PairNotes ==
    {HostEntry(Slash, NoteName, "file"),
     HostEntry(Folder1.path, NoteName, "file"),
     HostEntry(Folder2.path, NoteName, "file"),
     HostEntry(Slash, OtherName \o MdExt, "file"),
     HostEntry(FolderB.path, OtherName \o MdExt, "file"),
     HostEntry(FolderB.path, NoteName, "file"),
     HostEntry(FolderB1.path, NoteName, "file")}

Paths(v) == {f.path : f \in v}

\* A file tree: the root, unique paths, every entry inside an existing folder.
IsTree(v) ==
    /\ Root \in v
    /\ \A f, g \in v : f.path = g.path => f = g
    /\ \A f \in v \ {Root} : \E d \in v : d.kind = "folder" /\ d.path = f.parent

Trees == {v \in {s \cup {Root} : s \in SUBSET Skeleton} : IsTree(v)}

\* The trees that hold the four folders and any of their candidate notes.
PairTrees == {{Root, Folder1, Folder2, FolderB, FolderB1} \cup s : s \in SUBSET PairNotes}

\* The file the host makes of a path it is asked to create, and whether it
\* accepts to create it (the path is free and its folder exists).
HostNewFile(p) ==
    [path |-> p, name |-> HostBaseName(p), parent |-> HostDirName(p), kind |-> "file"]

HostCanCreate(v, p) ==
    /\ p \notin Paths(v)
    /\ \E d \in v : d.kind = "folder" /\ d.path = HostDirName(p)

Folders(v) == {f \in v : f.kind = "folder"}

\* vault.getAbstractFileByPath
getAbstractFileByPath(v, p) ==
    IF \E f \in v : f.path = p THEN CHOOSE f \in v : f.path = p ELSE NullFile

\* vault.getAllLoadedFiles().filter(f => f instanceof TFolder)
LoadedFolders(v) == Folders(v)

\* An entry and everything below it.
RECURSIVE Subtree(_, _)
Subtree(v, f) ==
    {f} \cup UNION {Subtree(v, c) : c \in {g \in v : g.parent = f.path /\ f.kind = "folder"}}

(***************************************************************************)
(* Folder-Note Resolver.                                                   *)
(***************************************************************************)
\* (mutant: the inside location is looked up first)
getFolderNoteInsideFirstMutant(v, folder) ==
    LET parentPath == folder.parent
        siblingPath == IF parentPath = Slash \/ parentPath = EmptyStr
                       THEN folder.name \o MdExt
                       ELSE parentPath \o Slash \o folder.name \o MdExt
        siblingFile == IF parentPath # Null
                       THEN getAbstractFileByPath(v, siblingPath) ELSE NullFile
        insideFile == getAbstractFileByPath(v, folder.path \o Slash \o folder.name \o MdExt)
    IN  IF insideFile.kind = "file" THEN insideFile
        ELSE IF parentPath # Null /\ siblingFile.kind = "file" THEN siblingFile
        ELSE NullFile

\* getFolderNote, with the two path templates written as the source writes them
getFolderNote(v, folder) ==
    LET folderName == folder.name
        parentPath == folder.parent
        siblingPath == IF parentPath = Slash \/ parentPath = EmptyStr
                       THEN folderName \o MdExt
                       ELSE parentPath \o Slash \o folderName \o MdExt
        siblingFile == IF parentPath # Null
                       THEN getAbstractFileByPath(v, siblingPath) ELSE NullFile
        insidePath == folder.path \o Slash \o folderName \o MdExt
        insideFile == getAbstractFileByPath(v, insidePath)
    IN  IF parentPath # Null /\ siblingFile.kind = "file" THEN siblingFile
        ELSE IF insideFile.kind = "file" THEN insideFile
        ELSE NullFile

\* (mutant: the note is created inside the folder)
createNotePathInsideMutant(folder) == folder.path \o Slash \o folder.name \o MdExt

\* (mutant: the parent's path is left out of the note path)
createNotePathDropParentMutant(folder) == folder.name \o MdExt

\* the path createFolderNote computes for the note it looks for and creates
createNotePath(folder) ==
    LET parentPath == folder.parent
    IN  IF parentPath = Null \/ parentPath = EmptyStr \/ parentPath = Slash
        THEN folder.name \o MdExt
        ELSE parentPath \o Slash \o folder.name \o MdExt


(***************************************************************************)
(* State.                                                                  *)
(***************************************************************************)
VARIABLES
    vault,          \* the host's file tree: a set of abstract files
    layoutReady,    \* the host has announced that its layout is ready
    container,      \* the element .nav-files-container is in the document
    rows,           \* the folder title rows of the file explorer, by data-path
    status,         \* per plugin instance: "none", "loaded", "unloaded"
    styleEl,        \* per instance: its style element (NoStyle when null)
    observer,       \* per instance: "null", "created" (observes nothing), "observing"
    updateTimeout,  \* per instance: 0 (null) or the id of its pending timer
    pendingReady,   \* instances whose onLayoutReady callback is queued
    obsQueue,       \* instances whose observer holds undelivered mutation records
    timers,         \* the host's armed timers
    ops,            \* the bag of note creations awaiting the host
    activeFile,     \* the path of the note shown in the active view, or Null
    sinceTrigger,   \* per instance: ms since its last debouncedUpdate (capped)
    burst,          \* per instance: triggers since its last timer recompute (capped)
    last            \* what the last step did (for stating the properties)

vars == <<vault, layoutReady, container, rows, status, styleEl, observer,
          updateTimeout, pendingReady, obsQueue, timers, ops, activeFile,
          sinceTrigger, burst, last>>

Inst == 1 .. MaxLoads
RowPaths == {Folder1.path, Folder2.path, FolderB.path, FolderB1.path}

NoRow == [rendered |-> FALSE, marked |-> FALSE, listeners |-> 0]
FreshRow == [rendered |-> TRUE, marked |-> FALSE, listeners |-> 0]

\* kind: "none", "click", "done", "recompute", "unload"
NoLast ==
    [kind |-> "none", inst |-> {}, byTimer |-> FALSE, burst |-> 0, bound |-> 0,
     row |-> Null, target |-> "none",
     prevented |-> FALSE, via |-> "none", folder |-> NullFile, result |-> Null,
     created |-> FALSE, data |-> Null, thrown |-> FALSE]

LoadedInst == {i \in Inst : status[i] = "loaded"}

(***************************************************************************)
(* The rendered row of a folder: the elements inside a title row, and      *)
(* Element.closest.                                                        *)
(***************************************************************************)
\* what a click inside a title row can hit: the text label, the collapse
\* indicator, or the icon inside the indicator
Targets == {"label", "indicator", "icon"}

ParentElement(t) ==
    CASE t = "icon" -> "indicator"
      [] t = "indicator" -> "row"
      [] t = "label" -> "row"
      [] OTHER -> "none"

RECURSIVE Closest(_, _)
Closest(t, cls) ==
    IF t = "none" THEN "none"
    ELSE IF t = cls THEN t
    ELSE Closest(ParentElement(t), cls)

\* document.querySelector(`.nav-folder-title[data-path="${CSS.escape(path)}"]`)
QueryFolderTitle(rs, path) ==
    LET hit == {p \in RowPaths : rs[p].rendered /\ SelectorMatches(CssEscape(path), p)}
    IN  IF hit = {} THEN Null ELSE CHOOSE p \in hit : TRUE

(***************************************************************************)
(* Resync Controller: the pure parts of the handlers.                      *)
(***************************************************************************)
\* debouncedUpdate of instance i, on the timer table and the handles
debouncedUpdateNoClearMutant(st, i) ==
    LET ids == {t.id : t \in st.timers}
        id == CHOOSE n \in 1 .. (Cardinality(ids) + 1) :
                  n \notin ids /\ \A m \in 1 .. (n - 1) : m \in ids
    IN  [timers |-> st.timers \cup {[id |-> id, owner |-> i, elapsed |-> 0, delay |-> QuietPeriod]},
         handle |-> [st.handle EXCEPT ![i] = id]]

debouncedUpdate(st, i) ==
    LET cleared == IF st.handle[i] # 0
                   THEN {t \in st.timers : t.id # st.handle[i]}
                   ELSE st.timers
        ids == {t.id : t \in cleared}
        id == CHOOSE n \in 1 .. (Cardinality(ids) + 1) :
                  n \notin ids /\ \A m \in 1 .. (n - 1) : m \in ids
    IN  [timers |-> cleared \cup {[id |-> id, owner |-> i, elapsed |-> 0, delay |-> QuietPeriod]},
         handle |-> [st.handle EXCEPT ![i] = id]]

\* the timer callback of debouncedUpdate, on the timer table and the
\* handles, for the due timer t (updateFolderNotesUI aside): the timer is
\* spent and the handle reset
timerCallbackRearmMutant(st, t) ==
    debouncedUpdate([timers |-> st.timers \ {t},
                     handle |-> [st.handle EXCEPT ![t.owner] = 0]], t.owner)

timerCallback(st, t) ==
    [timers |-> st.timers \ {t}, handle |-> [st.handle EXCEPT ![t.owner] = 0]]

RECURSIVE DebounceEach(_, _)
DebounceEach(st, I) ==
    IF I = {} THEN st
    ELSE LET i == CHOOSE x \in I : TRUE
         IN  DebounceEach(debouncedUpdate(st, i), I \ {i})

\* The instances in I each run debouncedUpdate once.
Debounce(I) ==
    LET st == DebounceEach([timers |-> timers, handle |-> updateTimeout], I)
    IN  /\ timers' = st.timers
        /\ updateTimeout' = st.handle
        /\ sinceTrigger' = [i \in Inst |-> IF i \in I THEN 0 ELSE sinceTrigger[i]]
        /\ burst' = [i \in Inst |->
                        IF i \in I /\ burst[i] < MaxBurst THEN burst[i] + 1 ELSE burst[i]]

\* the style element of an instance that has none (styleEl = null)
NoStyle == [present |-> FALSE, selectors |-> {}]

\* updateHiddenFolderNotes: the style element with its regenerated selectors
updateHiddenKeepStaleMutant(old, v) ==
    [present |-> TRUE,
     selectors |-> old.selectors \cup
        {CssEscape(getFolderNote(v, f).path) :
            f \in {g \in LoadedFolders(v) : getFolderNote(v, g) # NullFile}}]

updateHiddenFolderNotes(old, v) ==
    [present |-> TRUE,
     selectors |->
        {CssEscape(getFolderNote(v, f).path) :
            f \in {g \in LoadedFolders(v) : getFolderNote(v, g) # NullFile}}]

\* attachClickHandlers: the rows after the bind pass
attachClickHandlersNoMarkerCheckMutant(rs, v) ==
    LET found == {QueryFolderTitle(rs, f.path) : f \in LoadedFolders(v)} \ {Null}
    IN  [p \in RowPaths |->
            IF p \in found
            THEN [rs[p] EXCEPT !.marked = TRUE, !.listeners = @ + 1]
            ELSE rs[p]]

attachClickHandlers(rs, v) ==
    LET found == {QueryFolderTitle(rs, f.path) : f \in LoadedFolders(v)} \ {Null}
    IN  [p \in RowPaths |->
            IF p \in found /\ ~rs[p].marked
            THEN [rs[p] EXCEPT !.marked = TRUE, !.listeners = @ + 1]
            ELSE rs[p]]

\* updateFolderNotesUI run by every instance of I (hide pass, then bind pass)
UpdateFolderNotesUI(I) ==
    /\ styleEl' = [i \in Inst |->
                      IF i \in I THEN updateHiddenFolderNotes(styleEl[i], vault) ELSE styleEl[i]]
    /\ rows' = IF I = {} THEN rows ELSE attachClickHandlers(rows, vault)

\* the rows on which the bind pass installs an interceptor
NewlyBound(rs, v) ==
    {p \in RowPaths : attachClickHandlers(rs, v)[p].listeners # rs[p].listeners}

\* setupObserver
setupObserver == IF container THEN "observing" ELSE "created"

\* The observers that see a change of the explorer's child list.
Observing == {i \in Inst : observer[i] = "observing"}

\* The observers, among obs, that a recompute's own writes notify: none.
\* The style element is appended to document.head, outside the observed
\* .nav-files-container, and observe() asks for childList and subtree only,
\* so setting the marker attribute of a row produces no record.
observedByRecomputeStyleInsideMutant(obs) == obs

observedByRecompute(obs) == {}

\* the click listener's test for the collapse arrow
isArrowClickSelfOnlyMutant(t) == t = "indicator"

isArrowClick(t) == Closest(t, "indicator") # "none"

(***************************************************************************)
(* Note creation: the synchronous part of createFolderNote, and the        *)
(* operations it leaves waiting for vault.create.                          *)
(***************************************************************************)
\* createFolderNote up to its await: TRUE when it has to ask the host for
\* a new file (no file at the note path)
createNeedsFile(v, folder) ==
    getAbstractFileByPath(v, createNotePath(folder)).kind # "file"

\* the request createFolderNote leaves with the host: vault.create(notePath, "")
NewOp(via, folder) ==
    [via |-> via, folder |-> folder, notePath |-> createNotePath(folder), data |-> EmptyStr]

\* n operations for `folder` start waiting for the host
StartOps(n, via, folder) ==
    /\ BagCardinality(ops) + n <= MaxOps
    /\ ops' = ops (+) (NewOp(via, folder) :> n)

\* openOrCreateFolderNote(folder) run from start to end on tree v with
\* nothing in between: the tree it leaves, the note it opens and the paths
\* it creates
openOrCreateFolderNoteAlone(v, folder) ==
    LET note == getFolderNote(v, folder)
        notePath == createNotePath(folder)
        existing == getAbstractFileByPath(v, notePath)
    IN  IF note # NullFile
        THEN [vault |-> v, opened |-> note.path, created |-> {}]
        ELSE IF existing.kind = "file"
        THEN [vault |-> v, opened |-> existing.path, created |-> {}]
        ELSE IF HostCanCreate(v, notePath)
        THEN [vault |-> v \cup {HostNewFile(notePath)}, opened |-> notePath,
              created |-> {notePath}]
        ELSE [vault |-> v, opened |-> Null, created |-> {}]

\* what is left of an operation waiting in vault.create, run to its end on
\* tree v
settleCreate(v, op) ==
    IF HostCanCreate(v, op.notePath)
    THEN [vault |-> v \cup {HostNewFile(op.notePath)}, opened |-> op.notePath,
          created |-> {op.notePath}]
    ELSE [vault |-> v, opened |-> Null, created |-> {}]

\* createFolderNote after its await (try / catch): what it hands to its
\* caller once the host has settled vault.create with `file`, or rejected it
createFolderNoteSettledNoCatchMutant(rejected, file) ==
    IF rejected THEN [value |-> NullFile, thrown |-> TRUE]
    ELSE [value |-> file, thrown |-> FALSE]

createFolderNoteSettled(rejected, file) ==
    IF rejected THEN [value |-> NullFile, thrown |-> FALSE]
    ELSE [value |-> file, thrown |-> FALSE]

\* openOrCreateFolderNote after createFolderNote: `if (folderNote) openFile`
openIfNote(folderNote, active) ==
    IF folderNote # NullFile THEN folderNote.path ELSE active

(***************************************************************************)
(* Plugin lifecycle.                                                       *)
(***************************************************************************)
\* onload of a new instance: the host runs the onLayoutReady callback at
\* once when the layout is ready, and queues it otherwise; the three vault
\* handlers are registered until the instance is unloaded.
Onload ==
    /\ LoadedInst = {}
    /\ \E i \in Inst :
        /\ status[i] = "none"
        /\ \A j \in 1 .. (i - 1) : status[j] # "none"
        /\ status' = [status EXCEPT ![i] = "loaded"]
        /\ IF layoutReady
           THEN /\ UpdateFolderNotesUI({i})
                /\ observer' = [observer EXCEPT ![i] = setupObserver]
                /\ obsQueue' = obsQueue \cup observedByRecompute(Observing)
                /\ last' = [NoLast EXCEPT !.kind = "recompute", !.inst = {i},
                                          !.bound = Cardinality(NewlyBound(rows, vault))]
                /\ UNCHANGED pendingReady
           ELSE /\ pendingReady' = pendingReady \cup {i}
                /\ last' = NoLast
                /\ UNCHANGED <<styleEl, rows, observer, obsQueue>>
    /\ UNCHANGED <<vault, layoutReady, container, updateTimeout, timers,
                   ops, activeFile, sinceTrigger, burst>>

\* The host's layout becomes ready: every queued callback runs
\* (updateFolderNotesUI, then setupObserver).
HostLayoutReady ==
    /\ ~layoutReady
    /\ layoutReady' = TRUE
    /\ pendingReady' = {}
    /\ UpdateFolderNotesUI(pendingReady)
    /\ obsQueue' = IF pendingReady = {} THEN obsQueue
                   ELSE obsQueue \cup observedByRecompute(Observing)
    /\ observer' = [i \in Inst |-> IF i \in pendingReady THEN setupObserver ELSE observer[i]]
    /\ last' = IF pendingReady = {} THEN NoLast
               ELSE [NoLast EXCEPT !.kind = "recompute", !.inst = pendingReady,
                                   !.bound = Cardinality(NewlyBound(rows, vault))]
    /\ UNCHANGED <<vault, container, status, updateTimeout, timers, ops,
                   activeFile, sinceTrigger, burst>>

\* onunload: the fields it resets and the markers it strips
onunloadRows(rs) == [p \in RowPaths |-> [rs[p] EXCEPT !.marked = FALSE]]

Onunload ==
    \E i \in LoadedInst :
        /\ status' = [status EXCEPT ![i] = "unloaded"]
        /\ timers' = IF updateTimeout[i] # 0
                     THEN {t \in timers : t.id # updateTimeout[i]} ELSE timers
        /\ updateTimeout' = [updateTimeout EXCEPT ![i] = 0]
        /\ styleEl' = [styleEl EXCEPT ![i] = NoStyle]
        /\ observer' = [observer EXCEPT ![i] = "null"]
        /\ obsQueue' = IF observer[i] # "null" THEN obsQueue \ {i} ELSE obsQueue
        /\ rows' = onunloadRows(rows)
        /\ burst' = [burst EXCEPT ![i] = 0]
        /\ last' = [NoLast EXCEPT !.kind = "unload", !.inst = {i}]
        /\ UNCHANGED <<vault, layoutReady, container, pendingReady, ops, activeFile,
                       sinceTrigger>>

(***************************************************************************)
(* Timers and the structural observer.                                     *)
(***************************************************************************)
\* Time passes.
Tick ==
    /\ \E t \in timers : t.elapsed < t.delay
    /\ timers' = {[t EXCEPT !.elapsed = IF @ + TickMs > t.delay THEN t.delay ELSE @ + TickMs] :
                    t \in timers}
    /\ sinceTrigger' = [i \in Inst |->
                           IF burst[i] > 0
                           THEN (IF sinceTrigger[i] + TickMs > QuietPeriod
                                 THEN QuietPeriod ELSE sinceTrigger[i] + TickMs)
                           ELSE sinceTrigger[i]]
    /\ last' = NoLast
    /\ UNCHANGED <<vault, layoutReady, container, rows, status, styleEl, observer,
                   updateTimeout, pendingReady, obsQueue, ops, activeFile, burst>>

\* The callback of a due timer: updateFolderNotesUI, then the handle is reset.
\* A timer callback is a task of its own: the notifications queued by
\* earlier tasks (microtasks) have been delivered before it runs.
TimerFire ==
    \E t \in timers :
        /\ t.elapsed >= t.delay
        /\ obsQueue = {}
        /\ obsQueue' = obsQueue \cup observedByRecompute(Observing)
        /\ timers' = timerCallback([timers |-> timers, handle |-> updateTimeout], t).timers
        /\ UpdateFolderNotesUI({t.owner})
        /\ updateTimeout' = timerCallback([timers |-> timers, handle |-> updateTimeout], t).handle
        /\ burst' = [burst EXCEPT ![t.owner] = 0]
        /\ last' = [NoLast EXCEPT !.kind = "recompute", !.inst = {t.owner}, !.byTimer = TRUE,
                                  !.burst = burst[t.owner],
                                  !.bound = Cardinality(NewlyBound(rows, vault))]
        /\ UNCHANGED <<vault, layoutReady, container, status, observer, pendingReady,
                       ops, activeFile, sinceTrigger>>

\* The MutationObserver callback of instance i.
ObserverCallback ==
    \E i \in obsQueue :
        /\ obsQueue' = obsQueue \ {i}
        /\ Debounce({i})
        /\ last' = NoLast
        /\ UNCHANGED <<vault, layoutReady, container, rows, status, styleEl, observer,
                       pendingReady, ops, activeFile>>

(***************************************************************************)
(* The host's file explorer.                                               *)
(***************************************************************************)
HostOpenExplorer ==
    /\ ~container
    /\ container' = TRUE
    /\ last' = NoLast
    /\ UNCHANGED <<vault, layoutReady, rows, status, styleEl, observer, updateTimeout,
                   pendingReady, obsQueue, timers, ops, activeFile, sinceTrigger, burst>>

\* The explorer inserts the title row of a folder (a new element).
HostRenderRow ==
    \E p \in RowPaths :
        /\ container
        /\ ~rows[p].rendered
        /\ \E f \in Folders(vault) : f.path = p
        /\ rows' = [rows EXCEPT ![p] = FreshRow]
        /\ obsQueue' = obsQueue \cup Observing
        /\ last' = NoLast
        /\ UNCHANGED <<vault, layoutReady, container, status, styleEl, observer,
                       updateTimeout, pendingReady, timers, ops, activeFile,
                       sinceTrigger, burst>>

\* The explorer removes the title row of a folder (its element is dropped).
HostRemoveRow ==
    \E p \in RowPaths :
        /\ rows[p].rendered
        /\ rows' = [rows EXCEPT ![p] = NoRow]
        /\ obsQueue' = obsQueue \cup Observing
        /\ last' = NoLast
        /\ UNCHANGED <<vault, layoutReady, container, status, styleEl, observer,
                       updateTimeout, pendingReady, timers, ops, activeFile,
                       sinceTrigger, burst>>

(***************************************************************************)
(* The host's file store and the vault handlers of the loaded instance.    *)
(***************************************************************************)
\* vault 'create' for a folder: createFolderNote(folder), then debouncedUpdate
HostCreateFolder ==
    \E f \in {Folder1, Folder2} :
        /\ f.path \notin Paths(vault)
        /\ \E d \in Folders(vault) : d.path = f.parent
        /\ vault' = vault \cup {f}
        /\ IF LoadedInst # {} /\ createNeedsFile(vault', f)
           THEN StartOps(1, "event", f)
           ELSE UNCHANGED ops
        /\ Debounce(LoadedInst)
        /\ last' = NoLast
        /\ UNCHANGED <<layoutReady, container, rows, status, styleEl, observer,
                       pendingReady, obsQueue, activeFile>>

\* vault 'create' for a folder that exists already: while the vault loads
\* (before the layout is ready) the host raises 'create' for every existing
\* entry, and the handlers registered in onload receive it:
\* createFolderNote(folder), then debouncedUpdate.  Once for each folder
\* (its request is not raised again while the first is in flight).
HostLoadFolder ==
    \E f \in Folders(vault) \ {Root} :
        /\ ~layoutReady
        /\ LoadedInst # {}
        /\ \A op \in BagToSet(ops) : ~(op.via = "event" /\ op.folder = f)
        /\ IF createNeedsFile(vault, f)
           THEN StartOps(1, "event", f)
           ELSE UNCHANGED ops
        /\ Debounce(LoadedInst)
        /\ last' = NoLast
        /\ UNCHANGED <<vault, layoutReady, container, rows, status, styleEl, observer,
                       pendingReady, obsQueue, activeFile>>

\* vault 'create' for a file made by the user or another plugin:
\* debouncedUpdate; the explorer may insert its row
HostCreateFile ==
    \E f \in {g \in Skeleton : g.kind = "file"}, dom \in BOOLEAN :
        /\ f.path \notin Paths(vault)
        /\ \E d \in Folders(vault) : d.path = f.parent
        /\ vault' = vault \cup {f}
        /\ Debounce(LoadedInst)
        /\ obsQueue' = IF dom /\ container THEN obsQueue \cup Observing ELSE obsQueue
        /\ last' = NoLast
        /\ UNCHANGED <<layoutReady, container, rows, status, styleEl, observer,
                       pendingReady, ops, activeFile>>

RemoveEntry(f, dom) ==
    LET gone == Subtree(vault, f)
        goneRows == {p \in RowPaths : p \in Paths(gone) /\ rows[p].rendered}
    IN  /\ vault' = vault \ gone
        /\ rows' = [p \in RowPaths |-> IF p \in Paths(gone) THEN NoRow ELSE rows[p]]
        /\ Debounce(LoadedInst)
        /\ obsQueue' = IF goneRows # {} \/ (dom /\ container)
                       THEN obsQueue \cup Observing ELSE obsQueue
        /\ last' = NoLast
        /\ UNCHANGED <<layoutReady, container, status, styleEl, observer,
                       pendingReady, ops, activeFile>>

\* vault 'delete': debouncedUpdate; the explorer drops the rows
HostDelete ==
    \E f \in vault \ {Root}, dom \in BOOLEAN : RemoveEntry(f, dom)

\* vault 'rename' of a note to a path outside the modelled tree: debouncedUpdate
HostRenameAway ==
    \E f \in {g \in vault : g.kind = "file"}, dom \in BOOLEAN : RemoveEntry(f, dom)

\* vault.create(notePath, "") completes: the file exists from now on, the
\* 'create' handlers run (a file: debouncedUpdate only), and the awaiting
\* code continues: a click's operation opens the note.
CreateSucceeds ==
    \E op \in BagToSet(ops), dom \in BOOLEAN :
        LET file == HostNewFile(op.notePath)
            out == createFolderNoteSettled(FALSE, file)
        IN  /\ HostCanCreate(vault, op.notePath)
            /\ vault' = vault \cup {file}
            /\ ops' = ops (-) SetToBag({op})
            /\ Debounce(LoadedInst)
            /\ obsQueue' = IF dom /\ container THEN obsQueue \cup Observing ELSE obsQueue
            /\ activeFile' = IF op.via = "click" /\ ~out.thrown
                              THEN openIfNote(out.value, activeFile) ELSE activeFile
            /\ last' = [NoLast EXCEPT !.kind = "done", !.via = op.via, !.folder = op.folder,
                                      !.result = out.value.path, !.created = TRUE,
                                      !.data = op.data, !.thrown = out.thrown]
            /\ UNCHANGED <<layoutReady, container, rows, status, styleEl, observer,
                           pendingReady>>

\* vault.create rejects (the path is taken, its folder is gone, or the
\* write fails): createFolderNote logs and returns null, nothing is opened.
CreateFails ==
    \E op \in BagToSet(ops) :
        LET out == createFolderNoteSettled(TRUE, NullFile)
        IN  /\ ops' = ops (-) SetToBag({op})
            /\ activeFile' = IF op.via = "click" /\ ~out.thrown
                              THEN openIfNote(out.value, activeFile) ELSE activeFile
            /\ last' = [NoLast EXCEPT !.kind = "done", !.via = op.via, !.folder = op.folder,
                                      !.result = out.value.path, !.created = FALSE,
                                      !.data = op.data, !.thrown = out.thrown]
            /\ UNCHANGED <<vault, layoutReady, container, rows, status, styleEl, observer,
                           updateTimeout, pendingReady, obsQueue, timers,
                           sinceTrigger, burst>>

(***************************************************************************)
(* Clicks.                                                                 *)
(***************************************************************************)
\* A click inside the title row of folder p, on element t.  Every click
\* listener on the row runs: it returns on the collapse arrow, else it
\* prevents the default action and calls openOrCreateFolderNote(folder),
\* which opens the folder note it finds or asks for its creation.
ClickOn(T) ==
    \E p \in RowPaths, t \in T :
        LET folder == getAbstractFileByPath(vault, p)
            n == rows[p].listeners
            note == getFolderNote(vault, folder)
            handled == n > 0 /\ ~isArrowClick(t)
        IN  /\ rows[p].rendered
            /\ IF handled /\ note = NullFile /\ createNeedsFile(vault, folder)
               THEN StartOps(n, "click", folder)
               ELSE UNCHANGED ops
            /\ activeFile' =
                 IF ~handled THEN activeFile
                 ELSE IF note # NullFile THEN note.path
                 ELSE IF ~createNeedsFile(vault, folder) THEN createNotePath(folder)
                 ELSE activeFile
            /\ last' = [NoLast EXCEPT !.kind = "click", !.row = p, !.target = t,
                                      !.prevented = handled]
            /\ UNCHANGED <<vault, layoutReady, container, rows, status, styleEl, observer,
                           updateTimeout, pendingReady, obsQueue, timers, sinceTrigger, burst>>

Click == ClickOn(Targets)

\* a click on the text label of a folder row
ClickLabel == ClickOn({"label"})

(***************************************************************************)
(* Specifications.                                                         *)
(***************************************************************************)
Init ==
    /\ vault \in Trees
    /\ layoutReady \in BOOLEAN
    /\ container \in BOOLEAN
    /\ rows \in [RowPaths -> {NoRow, FreshRow}]
    /\ \A p \in RowPaths : rows[p].rendered => container /\ p \in Paths(Folders(vault))
    /\ status = [i \in Inst |-> "none"]
    /\ styleEl = [i \in Inst |-> NoStyle]
    /\ observer = [i \in Inst |-> "null"]
    /\ updateTimeout = [i \in Inst |-> 0]
    /\ pendingReady = {}
    /\ obsQueue = {}
    /\ timers = {}
    /\ ops = EmptyBag
    /\ activeFile = Null
    /\ sinceTrigger = [i \in Inst |-> 0]
    /\ burst = [i \in Inst |-> 0]
    /\ last = NoLast

Next ==
    \/ Onload
    \/ HostLayoutReady
    \/ Onunload
    \/ Tick
    \/ TimerFire
    \/ ObserverCallback
    \/ HostOpenExplorer
    \/ HostRenderRow
    \/ HostRemoveRow
    \/ HostCreateFolder
    \/ HostLoadFolder
    \/ HostCreateFile
    \/ HostDelete
    \/ HostRenameAway
    \/ CreateSucceeds
    \/ CreateFails
    \/ Click

Spec == Init /\ [][Next]_vars

\* The explorer is open, the layout is ready and every folder has its row.
AllRendered == \A p \in RowPaths : p \in Paths(Folders(vault)) => rows[p].rendered

InitReady == Init /\ layoutReady /\ container /\ AllRendered

\* The resolver at work: the plugin is enabled over any file tree, files
\* and folders come and go, folder names are clicked, the host completes
\* or rejects the note creations.
NextResolver ==
    \/ Onload
    \/ HostCreateFolder
    \/ HostCreateFile
    \/ HostDelete
    \/ HostRenameAway
    \/ CreateSucceeds
    \/ CreateFails
    \/ ClickLabel

SpecResolver == InitReady /\ [][NextResolver]_vars

\* The debounce and the bind pass: plugin sessions one after the other
\* over a small tree, with file events, explorer re-renders and time.
InitDebounce ==
    Init /\ layoutReady /\ container
         /\ vault = {Root, Folder1, HostEntry(Slash, NoteName, "file")}

NextDebounce ==
    \/ Onload
    \/ Onunload
    \/ Tick
    \/ TimerFire
    \/ ObserverCallback
    \/ HostRenderRow
    \/ HostRemoveRow
    \/ HostCreateFile
    \/ HostRenameAway

SpecDebounce == InitDebounce /\ [][NextDebounce]_vars

\* The hide pass: one plugin session over any file tree, with every file
\* event, the notes the system creates, and time.
NextHide ==
    \/ Onload
    \/ Tick
    \/ TimerFire
    \/ HostCreateFolder
    \/ HostCreateFile
    \/ HostDelete
    \/ HostRenameAway
    \/ CreateSucceeds
    \/ CreateFails

SpecHide == InitReady /\ [][NextHide]_vars

\* The click interceptor: one plugin session over any file tree, clicks on
\* every element of a row, notes renamed away, creations completing.
NextClick ==
    \/ Onload
    \/ Click
    \/ HostRenameAway
    \/ CreateSucceeds
    \/ CreateFails

SpecClick == InitReady /\ [][NextClick]_vars

\* The lifecycle: the plugin enabled and disabled before and after the
\* layout is ready, over a fixed tree, with the explorer and time.
InitLifecycle ==
    Init /\ vault = {Root, Folder1, HostEntry(Slash, NoteName, "file")}

NextLifecycle ==
    \/ Onload
    \/ Onunload
    \/ HostLayoutReady
    \/ Tick
    \/ TimerFire
    \/ ObserverCallback
    \/ HostOpenExplorer
    \/ HostRenderRow
    \/ HostRemoveRow
    \/ ClickLabel

SpecLifecycle == InitLifecycle /\ [][NextLifecycle]_vars

\* Start-up: the plugin is enabled while the vault loads or after, the host
\* announces the existing folders and new ones, the layout becomes ready,
\* folder names are clicked, creations complete.
InitStartup == Init /\ container /\ AllRendered

NextStartup ==
    \/ Onload
    \/ HostLoadFolder
    \/ HostLayoutReady
    \/ HostCreateFolder
    \/ CreateSucceeds
    \/ CreateFails
    \/ ClickLabel

SpecStartup == InitStartup /\ [][NextStartup]_vars

\* Recomputes among pending operations: one plugin session over any file
\* tree, folders created and clicked, creations completing, and time.
NextFrame ==
    \/ Onload
    \/ Tick
    \/ TimerFire
    \/ HostCreateFolder
    \/ CreateSucceeds
    \/ CreateFails
    \/ ClickLabel

SpecFrame == InitReady /\ [][NextFrame]_vars

\* Settling down: one plugin session over a tree of one folder, shown in
\* the explorer, in which notes are renamed away, the folder name is
\* clicked and creations complete or are rejected, while time passes, due timers fire and queued notifications are delivered.
\* The event loop runs every due timer callback and every queued observer
\* callback, and time does not stop: weak fairness on the three.
NextQuiesce ==
    \/ Onload
    \/ Tick
    \/ TimerFire
    \/ ObserverCallback
    \/ HostRenameAway
    \/ ClickLabel
    \/ CreateSucceeds
    \/ CreateFails

InitQuiesce == Init /\ layoutReady /\ container /\ AllRendered /\ vault = {Root, Folder1}

SpecQuiesce ==
    /\ InitQuiesce
    /\ [][NextQuiesce]_vars
    /\ WF_vars(Tick) /\ WF_vars(TimerFire) /\ WF_vars(ObserverCallback)

\* Operations in flight together: one plugin session over the four folders
\* and any of their notes, folder names clicked, creations completing.
InitPair ==
    /\ vault \in PairTrees
    /\ layoutReady = TRUE
    /\ container = TRUE
    /\ rows = [p \in RowPaths |-> FreshRow]
    /\ status = [i \in Inst |-> "none"]
    /\ styleEl = [i \in Inst |-> NoStyle]
    /\ observer = [i \in Inst |-> "null"]
    /\ updateTimeout = [i \in Inst |-> 0]
    /\ pendingReady = {}
    /\ obsQueue = {}
    /\ timers = {}
    /\ ops = EmptyBag
    /\ activeFile = Null
    /\ sinceTrigger = [i \in Inst |-> 0]
    /\ burst = [i \in Inst |-> 0]
    /\ last = NoLast

NextPair ==
    \/ Onload
    \/ ClickLabel
    \/ CreateSucceeds
    \/ CreateFails

SpecPair == InitPair /\ [][NextPair]_vars

(***************************************************************************)
(* The reference the claims are stated against: the two candidate          *)
(* locations of a folder's note, read off the tree (parent and name), not  *)
(* off path strings.                                                       *)
(***************************************************************************)
RefSibling(v, F) ==
    {f \in v : f.kind = "file" /\ F.parent # Null /\ f.parent = F.parent
                /\ f.name = F.name \o MdExt}

RefInside(v, F) ==
    {f \in v : f.kind = "file" /\ f.parent = F.path /\ f.name = F.name \o MdExt}

RefResolve(v, F) ==
    IF RefSibling(v, F) # {} THEN CHOOSE f \in RefSibling(v, F) : TRUE
    ELSE IF RefInside(v, F) # {} THEN CHOOSE f \in RefInside(v, F) : TRUE
    ELSE NullFile

\* the inside location F/name(F).md
InsidePathOf(F) == HostChildPath(F.path, F.name \o MdExt)

\* the folder whose title row carries data-path p
FolderAt(v, p) == getAbstractFileByPath(v, p)

(***************************************************************************)
(* Claims.                                                                 *)
(***************************************************************************)
\* C1: a click on a folder with no note at the sibling and none at the
\* inside location creates one empty note, and creates it at the inside
\* location F/name(F).md.
C1_ClickCreatesInsideNote ==
    (last.kind = "done" /\ last.via = "click" /\ last.created)
        => /\ last.result = InsidePathOf(last.folder)
           /\ last.data = EmptyStr

\* C2: when the host reports a new folder F, the note the system creates
\* for it is the inside note F/name(F).md (Projects/Projects.md).
C2_NewFolderGetsInsideNote ==
    (last.kind = "done" /\ last.via = "event" /\ last.created)
        => last.result = InsidePathOf(last.folder)

\* C3: getFolderNote is the reference resolution for every loaded folder:
\* the sibling note if it is a file, else the inside note if it is a file,
\* else none; with notes at both locations the sibling one; never a folder.
C3_ResolveMatchesReference ==
    \A F \in Folders(vault) :
        /\ getFolderNote(vault, F) = RefResolve(vault, F)
        /\ getFolderNote(vault, F).kind \in {"file", "null"}
        /\ (RefSibling(vault, F) # {} /\ RefInside(vault, F) # {})
               => getFolderNote(vault, F) \in RefSibling(vault, F)

\* C3 witness: a handled click has just opened the sibling note of a folder
\* that has notes at both locations, while a folder occupies the candidate
\* path of another folder.
C3_Witness ==
    /\ last.kind = "click" /\ last.prevented
    /\ LET F == FolderAt(vault, last.row)
       IN  /\ RefSibling(vault, F) # {} /\ RefInside(vault, F) # {}
           /\ activeFile = getFolderNote(vault, F).path
    /\ \E G \in Folders(vault), d \in Folders(vault) :
           G.parent # Null /\ d.parent = G.parent /\ d.name = G.name \o MdExt

\* C4: a click on a folder that has a folder note opens that note and asks
\* for no creation, and no note the system creates or asks for lies at the
\* inside location of a folder whose only note is the sibling one.
SiblingOnly(v, F) == RefSibling(v, F) # {} /\ RefInside(v, F) = {}

C4_Step ==
    /\ (last'.kind = "click" /\ last'.prevented
            /\ RefResolve(vault, FolderAt(vault, last'.row)) # NullFile)
           => /\ ops' = ops
              /\ vault' = vault
              /\ activeFile' = RefResolve(vault, FolderAt(vault, last'.row)).path
    /\ \A F \in Folders(vault) :
           SiblingOnly(vault, F)
               => /\ \A op \in BagToSet(ops') :
                         CopiesIn(op, ops') > CopiesIn(op, ops) => op.notePath # InsidePathOf(F)
                  /\ last'.kind = "done" => InsidePathOf(F) \notin Paths(vault' \ vault)

C4_ExistingNoteNeverDuplicated == [][C4_Step]_vars

\* C4 witness: a folder whose only note is the sibling one has been
\* clicked; its note is open and nothing is being created.
C4_Witness ==
    /\ last.kind = "click" /\ last.prevented
    /\ SiblingOnly(vault, FolderAt(vault, last.row))
    /\ activeFile = RefResolve(vault, FolderAt(vault, last.row)).path
    /\ ops = EmptyBag

\* The timers instance i has armed and not yet seen fire.
TimersOf(i) == {t \in timers : t.owner = i}

\* C5: debouncedUpdate cancels the pending timer before arming a new one:
\* an instance never has two recomputes pending, the pending one is the
\* one its handle names and it counts its delay from the last trigger; a
\* burst of triggers ends in one recompute, run no sooner than one quiet
\* period after the last trigger, after which nothing is pending.
C5_DebounceSingleRecompute ==
    /\ \A i \in Inst :
        /\ Cardinality(TimersOf(i)) <= 1
        /\ burst[i] > 0 <=> TimersOf(i) # {}
        /\ \A t \in TimersOf(i) :
               t.id = updateTimeout[i] /\ t.delay = QuietPeriod /\ t.elapsed = sinceTrigger[i]
        /\ TimersOf(i) = {} => updateTimeout[i] = 0
    /\ (last.kind = "recompute" /\ last.byTimer)
           => \A i \in last.inst :
                  /\ last.burst >= 1
                  /\ sinceTrigger[i] >= QuietPeriod
                  /\ burst[i] = 0
                  /\ TimersOf(i) = {}

\* C5 witness: a burst of two or more triggers has just ended in its one
\* recompute.
C5_Witness ==
    /\ last.kind = "recompute" /\ last.byTimer /\ last.burst >= 2
    /\ timers = {}

\* the file rows a style block hides: .nav-file-title rows whose data-path
\* one of its selectors matches
FileRowPaths == {f.path : f \in {g \in Skeleton : g.kind = "file"}}

HiddenBy(style) ==
    IF ~style.present THEN {}
    ELSE {p \in FileRowPaths : \E sel \in style.selectors : SelectorMatches(sel, p)}

ResolvedNotes(v) ==
    {RefResolve(v, F).path : F \in {G \in LoadedFolders(v) : RefResolve(v, G) # NullFile}}

\* C6: right after a recompute, the paths the instance's style block hides
\* are exactly the folder notes the loaded folders resolve to.
C6_HideSetIsResolvedSet ==
    last.kind = "recompute"
        => \A i \in last.inst : HiddenBy(styleEl[i]) = ResolvedNotes(vault)

\* C6 witness: a timer recompute has left a style block that hides a
\* resolved note while another note of the tree stays visible.
C6_Witness ==
    /\ last.kind = "recompute" /\ last.byTimer
    /\ \E i \in last.inst :
           /\ HiddenBy(styleEl[i]) # {}
           /\ \E f \in vault : f.kind = "file" /\ f.path \notin HiddenBy(styleEl[i])

\* the elements of a row that lie inside the collapse arrow
InsideArrow == {"indicator", "icon"}

\* C7: on a row that carries an interceptor, a click inside the collapse
\* arrow changes nothing and leaves the default action alone; any other
\* click prevents the default action and opens the folder note, or asks
\* for its creation when there is none; the interceptor stays; a creation
\* that yields no note leaves the view as it was, one that yields a note
\* opens it.
C7_Step ==
    /\ (last'.kind = "click" /\ rows[last'.row].listeners >= 1)
           => LET F == FolderAt(vault, last'.row)
                  note == RefResolve(vault, F)
              IN  /\ rows' = rows
                  /\ vault' = vault
                  /\ last'.target \in InsideArrow
                         => ~last'.prevented /\ ops' = ops /\ activeFile' = activeFile
                  /\ (last'.target \notin InsideArrow /\ note # NullFile)
                         => last'.prevented /\ ops' = ops /\ activeFile' = note.path
                  /\ (last'.target \notin InsideArrow /\ note = NullFile)
                         => /\ last'.prevented
                            /\ activeFile' = activeFile
                            /\ \E op \in BagToSet(ops') :
                                   /\ op.via = "click" /\ op.folder = F
                                   /\ ops' = ops (+) (op :> rows[last'.row].listeners)
    /\ (last'.kind = "done" /\ last'.via = "click")
           => activeFile' = IF last'.result = Null THEN activeFile ELSE last'.result

C7_ClickInterceptor == [][C7_Step]_vars

\* C7 witness: the icon inside the collapse arrow of a bound row has been
\* clicked.
C7_Witness ==
    /\ last.kind = "click" /\ last.target = "icon"
    /\ rows[last.row].listeners = 1 /\ rows[last.row].marked
    /\ ~last.prevented

\* C8: the bind pass is idempotent: run on the rows as they are, it marks
\* every rendered row of a loaded folder and installs one interceptor on
\* those that were not marked (a row without interceptor gets exactly
\* one); run again it changes nothing; right after a recompute every such
\* row is marked and a further pass would install nothing.
BindableRows(rs, v) == {p \in RowPaths : rs[p].rendered /\ p \in Paths(LoadedFolders(v))}

C9_TeardownRestoresHostUI ==
    /\ last.kind = "unload"
           => /\ \A i \in last.inst :
                     /\ TimersOf(i) = {} /\ updateTimeout[i] = 0
                     /\ styleEl[i] = NoStyle
                     /\ observer[i] = "null" /\ i \notin obsQueue
              /\ \A p \in RowPaths : ~rows[p].marked /\ rows[p].listeners = 0
    /\ (last.kind = "click" /\ LoadedInst = {}) => ~last.prevented

\* C10: once an instance is torn down, it never recomputes again and none
\* of its style block, observer, timer or markers comes back.
C10_NoOrphanAfterTeardown ==
    /\ \A i \in Inst :
           status[i] = "unloaded"
               => /\ styleEl[i] = NoStyle
                  /\ observer[i] = "null" /\ i \notin obsQueue
                  /\ TimersOf(i) = {} /\ updateTimeout[i] = 0
                  /\ ~(last.kind = "recompute" /\ i \in last.inst)
    /\ LoadedInst = {} => \A p \in RowPaths : ~rows[p].marked

\* C11: a note creation the host rejects (the path is taken by an entry
\* that is not a note, or the write fails) ends with no note and without an
\* exception reaching the click or folder-creation handler: the file tree
\* and the open note are as before, and the rows, their interceptors, the
\* loaded instance, its timers and the other operations are untouched, so
\* later events and clicks are handled as before.  A path that is taken
\* never yields a created note.
C11_Step ==
    /\ (last'.kind = "done" /\ ~last'.created)
           => /\ ~last'.thrown
              /\ last'.result = Null
              /\ vault' = vault
              /\ activeFile' = activeFile
              /\ rows' = rows /\ status' = status /\ styleEl' = styleEl
              /\ timers' = timers /\ updateTimeout' = updateTimeout
              /\ \E op \in BagToSet(ops) :
                     /\ op.folder = last'.folder /\ op.via = last'.via
                     /\ ops' = ops (-) SetToBag({op})
    /\ (last'.kind = "done" /\ last'.created)
           => last'.result \notin Paths(vault) /\ ~last'.thrown

C11_CreationFailureYieldsNoNote == [][C11_Step]_vars

\* C11 witness: a click's creation has just been rejected because a folder
\* occupies the note path, while another note is open in the view.
C11_Witness ==
    /\ last.kind = "done" /\ ~last.created /\ last.via = "click"
    /\ getAbstractFileByPath(vault, createNotePath(last.folder)).kind = "folder"
    /\ activeFile # Null
    /\ \E p \in RowPaths : rows[p].listeners >= 1

\* G is a child of F and bears F's name (A and A/A)
SameNamedChild(F, G) == G.parent = F.path /\ G.name = F.name

Nested(F, G) == SameNamedChild(F, G) \/ SameNamedChild(G, F)

\* The operation op, in flight for its folder, does on tree w what an
\* open-or-create started afresh on w would do, provided it did so on v:
\* the step from v to w has not changed what becomes of it.
Unaffected(v, w, op) ==
    openOrCreateFolderNoteAlone(v, op.folder) = settleCreate(v, op)
        => openOrCreateFolderNoteAlone(w, op.folder) = settleCreate(w, op)

\* C12 (as stated): when the operation of one folder completes while the
\* operation of another folder is in flight, the other one creates and
\* opens what it would if it ran only afterwards, whichever of the two
\* completes first and whatever the two folders are (A and A/A included).
C12_OriginalStep ==
    (last'.kind = "done" /\ last'.via = "click")
        => \A op \in BagToSet(ops') :
               (op.via = "click" /\ op.folder # last'.folder) => Unaffected(vault, vault', op)

C12_ConcurrentOpsIndependent == [][C12_OriginalStep]_vars

\* C12 (amended): the same, for two folders neither of which is the
\* same-named child of the other.
C12_AmendedStep ==
    (last'.kind = "done" /\ last'.via = "click")
        => \A op \in BagToSet(ops') :
               (op.via = "click" /\ op.folder # last'.folder /\ ~Nested(op.folder, last'.folder))
                   => Unaffected(vault, vault', op)

C12_IndependentUnlessNested == [][C12_AmendedStep]_vars

\* C12 witness: the note of one folder has just been created while the
\* operation of another folder, not nested with it, is still in flight and
\* will create its own note.
C12_Witness ==
    /\ last.kind = "done" /\ last.created /\ last.via = "click"
    /\ \E op \in BagToSet(ops) :
           /\ op.via = "click" /\ op.folder # last.folder
           /\ ~Nested(op.folder, last.folder)
           /\ op.folder.name = last.folder.name
           /\ settleCreate(vault, op).created = {op.notePath}
           /\ openOrCreateFolderNoteAlone(vault, op.folder) = settleCreate(vault, op)

\* C13 (as stated): two distinct folders never resolve to the same note.
C13_DistinctFoldersDistinctNotes ==
    \A F, G \in Folders(vault) :
        (F # G /\ getFolderNote(vault, F) # NullFile /\ getFolderNote(vault, G) # NullFile)
            => getFolderNote(vault, F) # getFolderNote(vault, G)

\* F and its same-named child G share the note F/name(F).md: the inside
\* note of F, which has no sibling note, and the sibling note of G.
SharesAsParent(v, F, G) ==
    /\ SameNamedChild(F, G)
    /\ getFolderNote(v, F).path = InsidePathOf(F)
    /\ RefSibling(v, F) = {}
    /\ getFolderNote(v, G) \in RefSibling(v, G)

\* C13 (amended): every folder has at most one recognised note, a file of
\* the tree at one of its two candidate locations, and two distinct folders
\* resolve to the same note only when one is the same-named child of the
\* other and the note is the parent's inside note.
C13_SharedNoteOnlyWhenNested ==
    /\ \A F \in Folders(vault) :
           getFolderNote(vault, F) # NullFile
               => /\ getFolderNote(vault, F) \in vault
                  /\ getFolderNote(vault, F) \in RefSibling(vault, F) \cup RefInside(vault, F)
                  /\ Cardinality(RefSibling(vault, F)) <= 1
                  /\ Cardinality(RefInside(vault, F)) <= 1
    /\ \A F, G \in Folders(vault) :
           (F # G /\ getFolderNote(vault, F) # NullFile
                  /\ getFolderNote(vault, F) = getFolderNote(vault, G))
               => SharesAsParent(vault, F, G) \/ SharesAsParent(vault, G, F)

\* C13 witness: the note just created for a folder is also the note its
\* parent resolves to, while two other folders of the tree, one of them
\* bearing the same name, resolve to notes of their own.
C13_Witness ==
    /\ last.kind = "done" /\ last.created
    /\ \E F \in Folders(vault) :
           /\ SharesAsParent(vault, F, last.folder)
           /\ getFolderNote(vault, F).path = last.result
    /\ getFolderNote(vault, FolderB) # NullFile
    /\ getFolderNote(vault, FolderB1) # NullFile
    /\ getFolderNote(vault, FolderB) # getFolderNote(vault, FolderB1)

\* C14: the system asks for the creation of a note for folder F only when
\* F has no folder note at that moment, be it on a click or on the host's
\* 'create' event for F, and a note the system creates never changes what
\* a folder that had a note resolves to.
C14_Step ==
    /\ \A op \in BagToSet(ops') :
           CopiesIn(op, ops') > CopiesIn(op, ops)
               => RefResolve(vault', op.folder) = NullFile
    /\ (last'.kind = "done" /\ last'.created)
           => \A F \in Folders(vault) :
                  RefResolve(vault, F) # NullFile => RefResolve(vault', F) = RefResolve(vault, F)

C14_CreateOnlyWhenNoteless == [][C14_Step]_vars

\* C15: a folder row rendered without a marker is re-bound by a recompute
\* that its rendering has scheduled: while an instance is loaded, every
\* rendered, unmarked row of a loaded folder has a recompute on its way (the
\* layout-ready callback still to come, a structural-change notification
\* queued, or the debounce timer armed), even without any file event.
C15_UnboundRowHasRecomputePending ==
    \A i \in LoadedInst, p \in RowPaths :
        (rows[p].rendered /\ ~rows[p].marked /\ p \in Paths(LoadedFolders(vault)))
            => \/ i \in pendingReady
               \/ i \in obsQueue
               \/ TimersOf(i) # {}

\* C16: a recompute changes only the style block of the instance that
\* runs it and the markers and interceptors of rows: the file tree, the
\* open note, the pending operations and what becomes of them, the queued
\* notifications and every timer but the one that fired are as before, and
\* no timer is armed.
C16_Step ==
    last'.kind = "recompute"
        => /\ vault' = vault
           /\ activeFile' = activeFile
           /\ ops' = ops
           /\ \A op \in BagToSet(ops) : settleCreate(vault', op) = settleCreate(vault, op)
           /\ obsQueue' = obsQueue
           /\ timers' \subseteq timers
           /\ \A t \in timers \ timers' : t.owner \in last'.inst /\ t.elapsed >= t.delay
           /\ Cardinality(timers \ timers') = (IF last'.byTimer THEN 1 ELSE 0)
           /\ \A j \in Inst \ last'.inst :
                  updateTimeout'[j] = updateTimeout[j] /\ styleEl'[j] = styleEl[j]
           /\ \A p \in RowPaths : rows'[p].rendered = rows[p].rendered

C16_RecomputeFrame == [][C16_Step]_vars

\* C16 witness: a timer recompute has just run while an open-or-create
\* operation is waiting for the host and a note is open in the view; it
\* has regenerated the style block.
C16_Witness ==
    /\ last.kind = "recompute" /\ last.byTimer
    /\ ops # EmptyBag
    /\ activeFile # Null
    /\ \E i \in last.inst : styleEl[i].present /\ styleEl[i].selectors # {}

\* C17: through starts, recomputes, re-renders, teardowns and restarts, a
\* rendered folder row carries a marker if and only if it carries exactly
\* one interceptor, and no row ever carries two.
C17_MarkerIffOneInterceptor ==
    \A p \in RowPaths :
        /\ rows[p].listeners <= 1
        /\ rows[p].rendered => (rows[p].marked <=> rows[p].listeners = 1)

\* C18: an open-or-create operation ends without a note only if its folder
\* still has no folder note at that moment; of several operations in flight
\* for one note-less folder, each ends with the folder's note.
C18_NoNoteOnlyIfStillNoteless ==
    (last.kind = "done" /\ last.result = Null)
        => RefResolve(vault, last.folder) = NullFile

\* A step of the user or of the host's other actors: a note is renamed
\* away, a folder name is clicked.
ExternalTrigger == HostRenameAway \/ ClickLabel

Quiescent == timers = {} /\ obsQueue = {}

C19_Step ==
    (last'.kind = "recompute")
        => /\ obsQueue' = obsQueue
           /\ vault' = vault
           /\ ops' = ops
           /\ timers' \subseteq timers

=============================================================================
